---- MODULE Spec2Model ----
(***************************************************************************)
(* rmadison-server (cmd/rmadison-server/main.go): the process reads its    *)
(* configuration, starts one refresh goroutine per configured archive and  *)
(* serves package lookups over HTTP by querying every archive's database   *)
(* in configuration order.                                                 *)
(*                                                                         *)
(* pkg/archive (RefreshCache) and pkg/database (NewConn, GetPackage) are   *)
(* modelled from the specification (sections 4.3 and 4.4); everything else *)
(* is translated from main.go.                                             *)
(***************************************************************************)
EXTENDS Integers, Sequences, FiniteSets, TLC

VARIABLES
    rawConfig,   \* the configuration file found on disk (input)
    mainPc,      \* position of func main
    exitReason,  \* why the process exited ("" while it runs)
    caches,      \* conf.Caches / httpHandler.Caches
    loops,       \* the goroutines started by refreshCaches, one record each
    disk0,       \* the databases as the previous run of the process left them
    store,       \* the databases on disk: database path -> pocket -> rows
    req          \* the HTTP request httpHandler.ServeHTTP is serving

vars == <<rawConfig, mainPc, exitReason, caches, loops, disk0, store, req>>

(***************************************************************************)
(* Bounds                                                                  *)
(***************************************************************************)
\* ticks the tickers fire in all (one more under SpecTicks); an archive runs
\* at most one pass more than its ticker fires
MaxTicks == 1

(***************************************************************************)
(* Data                                                                    *)
(***************************************************************************)
Pockets == <<"stable", "updates">>

PocketSet == {Pockets[k] : k \in 1..Len(Pockets)}

DBPaths == {"a.db", "b.db"}

\* Index stanzas an archive publishes. A version is the pair <<1, n>>, read
\* "1.n"; the program never compares versions.
Foo(n) == [package |-> "foo", version |-> <<1, n>>, architecture |-> "amd64",
           component |-> "main", source |-> "foo"]

Bar10 == [package |-> "bar", version |-> <<1, 0>>, architecture |-> "amd64",
          component |-> "universe", source |-> "bar"]

\* The index a pocket publishes the n-th time it changes: the next version of
\* foo replaces the one before, and bar is there. A snapshot thus tells which
\* index it was written from.
IndexAt(n) == <<Foo(n), Bar10>>

\* The rows a database holds for a pocket after storing an index: every stanza
\* with its pocket and its archive.
Rows(stanzas, archive, pocket) ==
    [k \in 1..Len(stanzas) |->
        [package |-> stanzas[k].package, version |-> stanzas[k].version,
         architecture |-> stanzas[k].architecture,
         component |-> stanzas[k].component, source |-> stanzas[k].source,
         pocket |-> pocket, archive |-> archive]]

RECURSIVE Concat(_)
Concat(ss) == IF ss = <<>> THEN <<>> ELSE Head(ss) \o Concat(Tail(ss))

(***************************************************************************)
(* Configuration: parseConfig                                              *)
(***************************************************************************)
ArchiveA == [base_url |-> "http://a", ports_url |-> "http://a-ports",
             database |-> "a.db", pockets |-> <<"stable", "updates">>]

ArchiveB == [base_url |-> "http://b", ports_url |-> "",
             database |-> "b.db", pockets |-> <<"stable">>]

\* archive A with its first pocket only
ArchiveAStable == [base_url |-> "http://a", ports_url |-> "http://a-ports",
                   database |-> "a.db", pockets |-> <<"stable">>]

\* archive B configured with the database path of archive A
ArchiveBonA == [base_url |-> "http://b", ports_url |-> "",
                database |-> "a.db", pockets |-> <<"stable">>]

NoBaseURL == [base_url |-> "", ports_url |-> "",
              database |-> "b.db", pockets |-> <<"stable">>]

BadBaseURL == [base_url |-> ":bad", ports_url |-> "",
               database |-> "b.db", pockets |-> <<"stable">>]

BadPortsURL == [base_url |-> "http://b", ports_url |-> ":bad",
                database |-> "b.db", pockets |-> <<"stable">>]

BadDatabase == [base_url |-> "http://b", ports_url |-> "",
                database |-> "/nonexistent/b.db", pockets |-> <<"stable">>]

\* a configuration file: whether one is found, what yaml.Unmarshal makes of
\* it ("ok"; "syntax": it is not YAML, nothing is decoded; "type": a value
\* has not the type of its field, the field is left as it is and the rest is
\* decoded), and the archives it decodes
ConfigFile(found, yaml, archives) ==
    [found |-> found, yaml |-> yaml, archives |-> archives]

\* The configuration files the process is started with.
RawConfigs ==
    { ConfigFile(FALSE, "ok", <<>>),
      ConfigFile(TRUE, "syntax", <<ArchiveA>>),
      ConfigFile(TRUE, "type", <<ArchiveB>>),
      ConfigFile(TRUE, "ok", <<>>),
      ConfigFile(TRUE, "ok", <<ArchiveB>>),
      ConfigFile(TRUE, "ok", <<ArchiveA, ArchiveB>>),
      ConfigFile(TRUE, "ok", <<ArchiveAStable, ArchiveBonA>>),
      ConfigFile(TRUE, "ok", <<ArchiveA, NoBaseURL>>),
      ConfigFile(TRUE, "ok", <<BadBaseURL, ArchiveA>>),
      ConfigFile(TRUE, "ok", <<ArchiveA, BadPortsURL>>),
      ConfigFile(TRUE, "ok", <<ArchiveA, BadDatabase>>) }

\* url.Parse: fails on a string with no scheme before its first colon
UrlParses(u) == u # ":bad"

\* database.NewConn("sqlite3", path)
NewConnOk(path) == path \in DBPaths

\* the archives yaml.Unmarshal leaves in rawConfig: its error is dropped; a
\* file that is not YAML leaves the zero value, a file with a value of the
\* wrong type leaves what could be decoded
YamlArchives(raw) == IF raw.yaml = "syntax" THEN <<>> ELSE raw.archives

\* the ports URL parseConfig uses: the base URL when none is given
PortsURLOf(c) == IF c.ports_url = "" THEN c.base_url ELSE c.ports_url

\* one iteration of parseConfig's loop fails
ArchiveConfErr(c) ==
    \/ c.base_url = ""
    \/ ~UrlParses(c.base_url)
    \/ ~UrlParses(PortsURLOf(c))
    \/ ~NewConnOk(c.database)

\* conf.Caches[i]
MakeArchive(c) ==
    [BaseURL |-> c.base_url, PortsURL |-> PortsURLOf(c),
     Pockets |-> c.pockets, Database |-> c.database]

\* parseConfig returns an error
ParseConfigErr(raw) ==
    \/ ~raw.found
    \/ \E k \in 1..Len(YamlArchives(raw)) : ArchiveConfErr(YamlArchives(raw)[k])

\* the index of rawConfig.Archives that conf.Caches[i] is built from
ConfigIndex(i, n) == i

\* parseConfig's conf.Caches when it returns no error
ParseConfigCaches(raw) ==
    [i \in 1..Len(YamlArchives(raw)) |->
        MakeArchive(YamlArchives(raw)[ConfigIndex(i, Len(YamlArchives(raw)))])]

(***************************************************************************)
(* The databases (pkg/database) and a refresh pass (pkg/archive)           *)
(***************************************************************************)
\* Database.GetPackage(pkg) on the database at dbPath: the rows of every
\* pocket whose package is pkg, pocket by pocket
GetPackageIn(st, dbPath, pkg) ==
    Concat([k \in 1..Len(Pockets) |->
        SelectSeq(st[dbPath][Pockets[k]], LAMBDA row : <<row.package>> = pkg)])

GetPackage(dbPath, pkg) == GetPackageIn(store, dbPath, pkg)

\* how many times the snapshot of a scope has been replaced in this run:
\* the version of foo says which index the snapshot was written from
Gen(dbPath, pocket) ==
    IF store[dbPath][pocket] = disk0[dbPath][pocket]
    THEN 0
    ELSE store[dbPath][pocket][1].version[2]

\* what makes two records the same package release, whatever archive
\* reports it
Identity(row) ==
    [package |-> row.package, version |-> row.version,
     architecture |-> row.architecture, component |-> row.component,
     source |-> row.source, pocket |-> row.pocket]

\* variant: the commit writes the new rows over the rows of the same
\* release, and leaves the rows the new index no longer has
ReplaceScopeUpsert(dbPath, pocket, rows) ==
    store' = [store EXCEPT ![dbPath][pocket] =
                 rows \o SelectSeq(@, LAMBDA old :
                            \A k \in 1..Len(rows) :
                               Identity(rows[k]) # Identity(old))]

\* variant: the commit inserts the new rows and leaves the old ones
ReplaceScopeNoDelete(dbPath, pocket, rows) ==
    store' = [store EXCEPT ![dbPath][pocket] = @ \o rows]

\* replace(archive, pocket, records): one atomic commit that substitutes the
\* rows of the scope
ReplaceScope(dbPath, pocket, rows) ==
    store' = [store EXCEPT ![dbPath][pocket] = rows]

\* what a previous run of the process left on disk
DiskEmpty == [d \in DBPaths |-> [p \in PocketSet |-> <<>>]]

DiskSeeded ==
    [d \in DBPaths |-> [p \in PocketSet |->
        IF p = "stable"
        THEN Rows(<<Foo(0)>>, IF d = "a.db" THEN "http://a" ELSE "http://b", p)
        ELSE <<>>]]

(***************************************************************************)
(* func main                                                               *)
(***************************************************************************)
Running == mainPc # "exited"

NoBody == [kind |-> "none", elems |-> <<>>]

\* no request is being served. The handler keeps no state between requests
\* and writes nothing that another request reads, so one request is followed
\* at a time.
IdleReq ==
    [pc |-> "idle", path |-> <<>>, pkg |-> <<>>, i |-> 0, allInfo |-> <<>>,
     got |-> <<>>, failedAt |-> 0, status |-> 0, contentType |-> FALSE,
     body |-> NoBody]

\* log.Fatal / log.Fatalf: os.Exit(1); the goroutines and the requests die
\* with the process, the databases stay on disk
Exit(reason) ==
    /\ mainPc' = "exited"
    /\ exitReason' = reason
    /\ caches' = <<>>
    /\ loops' = <<>>
    /\ req' = IdleReq
    /\ UNCHANGED <<rawConfig, disk0, store>>

\* main.go:190 and 89-104: the pprof server's ListenAndServe returns
PprofServerFails ==
    /\ Running
    /\ Exit("pprof")

\* main.go:198-201: parseConfig fails
MainConfigError ==
    /\ mainPc = "start"
    /\ ParseConfigErr(rawConfig)
    /\ Exit("config")

\* main.go:203-205: parseConfig succeeds and yields no archive
MainNoArchive ==
    /\ mainPc = "start"
    /\ ~ParseConfigErr(rawConfig)
    /\ Len(ParseConfigCaches(rawConfig)) = 0
    /\ Exit("noarchive")

\* main.go:198-205: parseConfig succeeds
MainParseConfig ==
    /\ mainPc = "start"
    /\ ~ParseConfigErr(rawConfig)
    /\ Len(ParseConfigCaches(rawConfig)) # 0
    /\ caches' = ParseConfigCaches(rawConfig)
    /\ mainPc' = "configured"
    /\ UNCHANGED <<rawConfig, exitReason, loops, disk0, store, req>>

\* the archive the goroutine started in iteration i of refreshCaches works
\* on: the loop variable is passed to the goroutine as its argument
LoopArchive(i) == i

\* variant: the loops run one after another in the caller, so that only the
\* first ever runs
SpawnedSequential(i) == i = 1

\* main.go:71: every loop runs in a goroutine of its own, started at once
Spawned(i) == TRUE

\* main.go:207, 69-87: refreshCaches starts one goroutine per archive and returns
MainRefreshCaches ==
    /\ mainPc = "configured"
    /\ loops' = [i \in 1..Len(caches) |->
                    [archive |-> LoopArchive(i), pc |-> "spawned",
                     tickPending |-> FALSE, ticks |-> 0, passes |-> 0,
                     force |-> FALSE, pocketIdx |-> 0, err |-> FALSE,
                     now |-> 0, pkgStats |-> 0, results |-> <<>>]]
    /\ mainPc' = "spawned"
    /\ UNCHANGED <<rawConfig, exitReason, caches, disk0, store, req>>

\* main.go:212-221: ListenAndServe binds :8433 and serves
MainListen ==
    /\ mainPc = "spawned"
    /\ mainPc' = "serving"
    /\ UNCHANGED <<rawConfig, exitReason, caches, loops, disk0, store, req>>

\* main.go:221: ListenAndServe returns an error
MainListenFails ==
    /\ mainPc \in {"spawned", "serving"}
    /\ Exit("listen")

(***************************************************************************)
(* The goroutine of refreshCaches, main.go:71-85                           *)
(***************************************************************************)
\* main.go:72: t := time.NewTicker(5 * time.Minute)
NewTicker(i) ==
    /\ Running
    /\ i \in DOMAIN loops
    /\ Spawned(i)
    /\ loops[i].pc = "spawned"
    /\ loops' = [loops EXCEPT ![i].pc = "first"]
    /\ UNCHANGED <<rawConfig, mainPc, exitReason, caches, disk0, store, req>>

RECURSIVE SumTicks(_)
SumTicks(ls) == IF ls = <<>> THEN 0 ELSE Head(ls).ticks + SumTicks(Tail(ls))

\* the ticks fired so far by all tickers
TicksFired == SumTicks(loops)

\* the ticker of goroutine i fires, as long as fewer than budget ticks have
\* fired: its channel holds one tick, a tick that finds the channel full is
\* dropped
TickWithin(i, budget) ==
    /\ Running
    /\ i \in DOMAIN loops
    /\ loops[i].pc # "spawned"
    /\ TicksFired < budget
    /\ loops' = [loops EXCEPT ![i].ticks = @ + 1, ![i].tickPending = TRUE]
    /\ UNCHANGED <<rawConfig, mainPc, exitReason, caches, disk0, store, req>>

Tick(i) == TickWithin(i, MaxTicks)

\* variant: the first pass is forced
RefreshForceFirst(passes) == passes = 0

\* main.go:75: the force argument of cache.RefreshCache, given the number of
\* passes the goroutine has begun
RefreshForce(passes) == FALSE

\* variant: the goroutine does not wait for the ticker
TickReadyAlways(l) == TRUE

\* main.go:83: <-t.C lets the goroutine go on when the channel holds a tick
TickReady(l) == l.tickPending

\* time.Now(), counted in intervals of the goroutine's ticker since it was
\* created
TimeNow(l) == l.ticks

\* main.go:74-75: the pass begins; results holds what has been logged for
\* the pass begun last
BeginPass(l) ==
    [l EXCEPT !.pc = "refresh", !.passes = @ + 1, !.force = RefreshForce(l.passes),
              !.pocketIdx = 1, !.err = FALSE,
              !.now = TimeNow(l), !.pkgStats = 0, !.results = <<>>]

\* variant: the loop receives from the ticker before it calls RefreshCache
FirstPassAfterTick(l) == l.tickPending

\* main.go:73-75: the body of the loop begins with RefreshCache; the first
\* iteration waits for nothing
FirstPassReady(l) == TRUE

\* main.go:73-75, first iteration
FirstPass(i) ==
    /\ Running
    /\ i \in DOMAIN loops
    /\ loops[i].pc = "first"
    /\ FirstPassReady(loops[i])
    /\ loops' = [loops EXCEPT ![i] = BeginPass(loops[i])]
    /\ UNCHANGED <<rawConfig, mainPc, exitReason, caches, disk0, store, req>>

\* main.go:83 then 74-75: a tick is received and the next pass begins
NextPass(i) ==
    /\ Running
    /\ i \in DOMAIN loops
    /\ loops[i].pc = "wait"
    /\ TickReady(loops[i])
    /\ loops' = [loops EXCEPT ![i] = BeginPass([loops[i] EXCEPT !.tickPending = FALSE])]
    /\ UNCHANGED <<rawConfig, mainPc, exitReason, caches, disk0, store, req>>

\* variant: a pocket whose index cannot be fetched is stored as empty
FetchFailedClears(dbPath, pocket) == ReplaceScope(dbPath, pocket, <<>>)

\* fetching, parsing or storing the index of a pocket fails: the error is
\* returned before anything is committed
FetchFailed(dbPath, pocket) == UNCHANGED store

\* RefreshCache, one pocket: the index is unchanged (never with force), or
\* fetching, parsing or storing it fails, or its records replace the pocket's
\* snapshot
RefreshPocket(i) ==
    /\ Running
    /\ i \in DOMAIN loops
    /\ loops[i].pc = "refresh"
    /\ LET a == caches[loops[i].archive]
           k == loops[i].pocketIdx
       IN /\ k <= Len(a.Pockets)
          /\ \/ /\ ~loops[i].force
                /\ loops' = [loops EXCEPT ![i].pocketIdx = k + 1]
                /\ UNCHANGED store
             \/ /\ loops' = [loops EXCEPT ![i].pocketIdx = k + 1, ![i].err = TRUE]
                /\ FetchFailed(a.Database, a.Pockets[k])
             \/ /\ loops' = [loops EXCEPT
                            ![i].pocketIdx = k + 1,
                            ![i].pkgStats = @ + Len(IndexAt(Gen(a.Database, a.Pockets[k]) + 1))]
                /\ ReplaceScope(a.Database, a.Pockets[k],
                                Rows(IndexAt(Gen(a.Database, a.Pockets[k]) + 1),
                                     a.BaseURL, a.Pockets[k]))
    /\ UNCHANGED <<rawConfig, mainPc, exitReason, caches, disk0, req>>

\* variant: an error is logged with log.Fatalf
LogResultFatal(pc, err) == IF err THEN "exited" ELSE pc

\* main.go:77-81: what logging the result of a pass does to the position of
\* main: log.Errorf and log.Infof return
LogResult(pc, err) == pc

\* variant: the goroutine returns when its pass has failed
AfterLogReturnOnError(err) == IF err THEN "returned" ELSE "wait"

\* main.go:77-83: where the goroutine is after logging the result: at <-t.C,
\* whether the pass failed or not
AfterLog(err) == "wait"

\* variant: the else is missing, a failed pass is logged by log.Errorf and
\* by log.Infof
LogLinesNoElse(result) == IF result.err THEN <<result, result>> ELSE <<result>>

\* main.go:77-81: the lines logged for a pass: one, by log.Errorf or by
\* log.Infof
LogLines(result) == <<result>>

\* main.go:75-81: what is logged of a pass: the duration measured around
\* RefreshCache, the pkgStats and the err it returned
RefreshResult(l) ==
    [duration |-> TimeNow(l) - l.now, pkgStats |-> l.pkgStats, err |-> l.err]

\* main.go:75-83: RefreshCache returns, the result is logged, the goroutine
\* waits for the next tick
EndPass(i) ==
    /\ Running
    /\ i \in DOMAIN loops
    /\ loops[i].pc = "refresh"
    /\ loops[i].pocketIdx > Len(caches[loops[i].archive].Pockets)
    /\ IF LogResult(mainPc, loops[i].err) = "exited"
       THEN Exit("refresh")
       ELSE /\ loops' = [loops EXCEPT
                            ![i].pc = AfterLog(loops[i].err),
                            ![i].results = @ \o LogLines(RefreshResult(loops[i]))]
            /\ UNCHANGED <<rawConfig, mainPc, exitReason, caches, disk0, store, req>>

(***************************************************************************)
(* httpHandler.ServeHTTP, main.go:39-67                                    *)
(***************************************************************************)
\* r.URL.Path as a sequence of path separators and names
RequestPaths ==
    { <<"/", "foo">>, <<"/">>, <<"/", "/", "bar">>,
      <<"/", "foo", "/">>, <<"/", "foo", "/", "bar">> }

\* strings.TrimLeft(path, "/"): every leading separator is cut
RECURSIVE TrimLeft(_)
TrimLeft(path) ==
    IF path # <<>> /\ Head(path) = "/" THEN TrimLeft(Tail(path)) ELSE path

\* strings.Contains(pkg, "/")
ContainsSlash(pkg) == \E k \in 1..Len(pkg) : pkg[k] = "/"

\* one element of the JSON array: the fields of a PackageInfo
JsonObject(row) ==
    [package |-> row.package, version |-> row.version,
     architecture |-> row.architecture, component |-> row.component,
     source |-> row.source, pocket |-> row.pocket, archive |-> row.archive]

\* variant: allInfo is declared without make, a nil slice when nothing is
\* appended, which json.Marshal writes as null
MarshalNilSlice(allInfo) ==
    IF allInfo = <<>>
    THEN [kind |-> "null", elems |-> <<>>]
    ELSE [kind |-> "array",
          elems |-> [k \in 1..Len(allInfo) |-> JsonObject(allInfo[k])]]

\* json.Marshal of a slice that is never nil: an array, "[]" when empty
Marshal(allInfo) ==
    [kind |-> "array", elems |-> [k \in 1..Len(allInfo) |-> JsonObject(allInfo[k])]]

\* main.go:59-60: json.Marshal returns an error; it encodes element by
\* element, so it has nothing to fail on when the slice is empty
MarshalErr(allInfo, marshalOk) == ~marshalOk /\ allInfo # <<>>

\* variant: the handler answers from a copy of the databases made at startup
CallGetPackageStale(i, pkg) == GetPackageIn(disk0, caches[i].Database, pkg)

\* main.go:50: the handler asks the database of h.Caches[i], each time
CallGetPackage(i, pkg) == GetPackage(caches[i].Database, pkg)

\* variant: a row is dropped when a row gathered before it is the same
\* release
AppendAllDedup(allInfo, allInfoArchive) ==
    allInfo \o SelectSeq(allInfoArchive,
                         LAMBDA row : \A k \in 1..Len(allInfo) :
                                         Identity(allInfo[k]) # Identity(row))

\* variant: the rows of an archive are put before those gathered so far
AppendAllFront(allInfo, allInfoArchive) == allInfoArchive \o allInfo

\* main.go:56: allInfo = append(allInfo, allInfoArchive...)
AppendAll(allInfo, allInfoArchive) == allInfo \o allInfoArchive

\* main.go:59-66: the loop is over; the records are marshalled and written
Finish(rq, marshalOk) ==
    IF ~MarshalErr(rq.allInfo, marshalOk)
    THEN [rq EXCEPT !.pc = "done", !.status = 200, !.contentType = TRUE,
                     !.body = Marshal(rq.allInfo)]
    ELSE [rq EXCEPT !.pc = "done", !.status = 500]

\* main.go:49, 57-59: next iteration, or the end of the loop
AfterGet(rq, marshalOk) ==
    IF rq.i > Len(caches) THEN Finish(rq, marshalOk) ELSE rq

\* variant: the archive whose database failed is skipped
OnGetErrorSkip(rq, marshalOk) ==
    AfterGet([rq EXCEPT !.failedAt = rq.i, !.i = @ + 1], marshalOk)

\* main.go:51-55: GetPackage returned an error: status 500, no body, return
OnGetError(rq, marshalOk) ==
    [rq EXCEPT !.pc = "done", !.failedAt = rq.i, !.status = 500]

\* main.go:50, 56: GetPackage returned rows; got keeps what each database
\* returned
OnGetRows(rq, rows, marshalOk) ==
    AfterGet([rq EXCEPT !.allInfo = AppendAll(@, rows),
                        !.got = Append(@, [db |-> caches[rq.i].Database,
                                           rows |-> rows]),
                        !.i = @ + 1], marshalOk)

\* main.go:39-48: a request arrives; a path with a separator after the
\* leading ones is answered 404
Receive(path) ==
    /\ mainPc = "serving"
    /\ req.pc = "idle"
    /\ LET pkg == TrimLeft(path)
       IN req' = IF ContainsSlash(pkg)
                 THEN [IdleReq EXCEPT !.pc = "done", !.path = path, !.pkg = pkg,
                                      !.status = 404]
                 ELSE [IdleReq EXCEPT !.pc = "loop", !.path = path, !.pkg = pkg,
                                      !.i = 1]
    /\ UNCHANGED <<rawConfig, mainPc, exitReason, caches, loops, disk0, store>>

\* main.go:49-66: one iteration of the loop over h.Caches, and what follows
\* the last one
GetStep ==
    /\ Running
    /\ req.pc = "loop"
    /\ \E getOk \in BOOLEAN, marshalOk \in BOOLEAN :
         req' = IF getOk
                THEN OnGetRows(req, CallGetPackage(req.i, req.pkg), marshalOk)
                ELSE OnGetError(req, marshalOk)
    /\ UNCHANGED <<rawConfig, mainPc, exitReason, caches, loops, disk0, store>>

\* the response has been sent and the handler has returned
Close ==
    /\ Running
    /\ req.pc = "done"
    /\ req' = IdleReq
    /\ UNCHANGED <<rawConfig, mainPc, exitReason, caches, loops, disk0, store>>

(***************************************************************************)
(* The process                                                             *)
(***************************************************************************)
Init ==
    /\ rawConfig \in RawConfigs
    /\ mainPc = "start"
    /\ exitReason = ""
    /\ caches = <<>>
    /\ loops = <<>>
    /\ disk0 \in {DiskEmpty, DiskSeeded}
    /\ store = disk0
    /\ req = IdleReq

Next ==
    \/ PprofServerFails
    \/ MainConfigError
    \/ MainNoArchive
    \/ MainParseConfig
    \/ MainRefreshCaches
    \/ MainListen
    \/ MainListenFails
    \/ \E i \in DOMAIN loops : NewTicker(i)
    \/ \E i \in DOMAIN loops : Tick(i)
    \/ \E i \in DOMAIN loops : FirstPass(i)
    \/ \E i \in DOMAIN loops : NextPass(i)
    \/ \E i \in DOMAIN loops : RefreshPocket(i)
    \/ \E i \in DOMAIN loops : EndPass(i)
    \/ \E path \in RequestPaths : Receive(path)
    \/ GetStep
    \/ Close

Spec == Init /\ [][Next]_vars

\* the indices a goroutine of refreshCaches can have
LoopIds == UNION {1..Len(c.archives) : c \in RawConfigs}

\* the steps of the goroutine of archive i
LoopStep(i) ==
    NewTicker(i) \/ FirstPass(i) \/ NextPass(i) \/ RefreshPocket(i) \/ EndPass(i)

\* the steps of main
MainStep ==
    \/ PprofServerFails
    \/ MainConfigError
    \/ MainNoArchive
    \/ MainParseConfig
    \/ MainRefreshCaches
    \/ MainListen
    \/ MainListenFails

\* main and the goroutines of refreshCaches, without the requests: a step of
\* ServeHTTP changes req only, and no step of main or of a goroutine reads req
NextLoops ==
    \/ MainStep
    \/ \E i \in DOMAIN loops : Tick(i)
    \/ \E i \in DOMAIN loops : LoopStep(i)

\* The goroutines with their scheduling: a goroutine that can take a step
\* eventually takes one (the Go scheduler runs every runnable goroutine, and
\* the fetch and the commit of a pocket return). Nothing is assumed of the
\* tickers or of main.
SpecFair ==
    Init /\ [][NextLoops]_vars /\ \A i \in LoopIds : WF_vars(LoopStep(i))

\* main and the goroutines, followed for one tick more
NextTicks ==
    \/ MainStep
    \/ \E i \in DOMAIN loops : TickWithin(i, MaxTicks + 1)
    \/ \E i \in DOMAIN loops : LoopStep(i)

SpecTicks == Init /\ [][NextTicks]_vars

(***************************************************************************)
(* Properties                                                              *)
(***************************************************************************)
\* the rows the databases returned to the request so far, in call order
GotRows == Concat([j \in 1..Len(req.got) |-> req.got[j].rows])

\* the request has been answered with the records it found
Answered == req.pc = "done" /\ req.status = 200

\* C1: a successful lookup returns exactly get_1(name) ++ ... ++ get_N(name):
\* the j-th database asked is the one of the j-th archive of the
\* configuration file, every archive is asked, the records gathered are
\* at every moment the concatenation of what the databases returned, in that
\* order, and the body of the answer is the JSON array of exactly these.
C1_LookupConcatenates ==
    /\ req.allInfo = GotRows
    /\ \A j \in 1..Len(req.got) :
          req.got[j].db = YamlArchives(rawConfig)[j].database
    /\ Answered =>
          /\ Len(req.got) = Len(YamlArchives(rawConfig))
          /\ req.body = Marshal(GotRows)

\* C1 happens: two archives both returned records and the lookup succeeded
C1_Witness ==
    /\ Answered
    /\ Len(req.got) = 2
    /\ req.got[1].rows # <<>>
    /\ req.got[2].rows # <<>>
    /\ req.got[1].rows # req.got[2].rows

\* C2: lookup is fail-fast: the step in which a database returns an error
\* ends the request with status 500 and no body, whatever the archives before
\* it returned, and touches nothing but that request: the process is still
\* serving, the goroutines and the databases are as they were. A failed
\* request never carries a body afterwards.
C2_FailFast ==
    /\ [](req.failedAt # 0 =>
            /\ req.pc = "done"
            /\ req.status = 500
            /\ req.body = NoBody
            /\ ~req.contentType)
    /\ [][(req.failedAt = 0 /\ req'.failedAt # 0) =>
            /\ req'.failedAt = req.i
            /\ mainPc' = "serving"
            /\ UNCHANGED <<mainPc, exitReason, caches, loops, store>>]_vars

\* C2 happens: the second archive's database failed after the first had
\* returned records
C2_Witness ==
    /\ req.failedAt = 2
    /\ Len(req.got) = 1
    /\ req.got[1].rows # <<>>
    /\ req.status = 500

\* goroutine i has completed its first pass, the one begun at startup
FirstPassDone(i) ==
    \/ loops[i].passes > 1
    \/ loops[i].passes = 1 /\ loops[i].pc = "wait"

\* C3 as claimed: the first pass of every archive, and no other, is run with
\* force=true, and it has completed before a request is served.
C3_ForcedSyncStartupPass ==
    /\ \A i \in DOMAIN loops :
          loops[i].passes >= 1 => (loops[i].force <=> loops[i].passes = 1)
    /\ req.pc # "idle" => \A i \in DOMAIN loops : FirstPassDone(i)

\* C3, amended: no pass, the startup pass included, is run with force=true,
\* and main does not wait for the startup passes: once the goroutines are
\* started the HTTP server can start whatever the passes are doing.
C3_StartupPassUnforcedAsync ==
    /\ \A i \in DOMAIN loops : ~loops[i].force
    /\ mainPc = "spawned" => ENABLED MainListen

\* C3 happens: a lookup has been answered while the startup pass of an
\* archive is still running, with force=false
C3_Witness ==
    /\ Answered
    /\ \E i \in DOMAIN loops :
          /\ loops[i].passes = 1
          /\ loops[i].pc = "refresh"
          /\ ~loops[i].force

\* C4: an error of a refresh pass, the startup pass included, never stops the
\* serving path: the process never exits because of a pass, and with a failed
\* pass on record the HTTP server can still be started, a request can still be
\* received, and the request being served can still go on.
C4_RefreshErrorKeepsServing ==
    /\ exitReason # "refresh"
    /\ \A i \in DOMAIN loops :
          loops[i].err =>
             /\ Running
             /\ mainPc = "spawned" => ENABLED MainListen
             /\ (mainPc = "serving" /\ req.pc = "idle") =>
                   \A path \in RequestPaths : ENABLED Receive(path)
             /\ req.pc = "loop" => ENABLED GetStep

\* C4 happens: the startup pass of an archive has failed and a lookup has
\* been answered with the records on disk
C4_Witness ==
    /\ \E i \in DOMAIN loops :
          loops[i].passes = 1 /\ loops[i].pc = "wait" /\ loops[i].err
    /\ Answered
    /\ req.body.elems # <<>>

\* C5: there is exactly one goroutine per configured archive, and what a
\* goroutine may do next depends on its own state only: whatever the others
\* are doing (in a pass, failed, waiting) it can create its ticker, begin
\* its pass, go on with it and end it; and a request can always go on.
C5_LoopsIndependent ==
    /\ loops # <<>> =>
          \A a \in 1..Len(caches) :
             Cardinality({i \in DOMAIN loops : loops[i].archive = a}) = 1
    /\ \A i \in DOMAIN loops :
          /\ loops[i].pc = "spawned" => ENABLED NewTicker(i)
          /\ loops[i].pc = "first" => ENABLED FirstPass(i)
          /\ (loops[i].pc = "wait" /\ loops[i].tickPending) => ENABLED NextPass(i)
          /\ loops[i].pc = "refresh" => ENABLED (RefreshPocket(i) \/ EndPass(i))
    /\ req.pc = "loop" => ENABLED GetStep

\* C5 happens: archive 1 is stuck in the first pocket of its startup pass
\* while archive 2 has completed a pass and a lookup has been answered
C5_Witness ==
    /\ Len(loops) = 2
    /\ loops[1].pc = "refresh" /\ loops[1].passes = 1 /\ loops[1].pocketIdx = 1
    /\ loops[2].pc = "wait" /\ loops[2].passes = 1
    /\ Answered

\* the rows of a sequence that belong to one pocket, to one package name
InPocket(rows, pocket) == SelectSeq(rows, LAMBDA row : row.pocket = pocket)

ByName(rows, pkg) == SelectSeq(rows, LAMBDA row : <<row.package>> = pkg)

\* every snapshot committed so far to a scope of a database: what the disk
\* held at startup and each index stored since, by an archive of that database
SnapshotsOf(dbPath, pocket) ==
    {disk0[dbPath][pocket]} \cup
    { Rows(IndexAt(g), caches[a].BaseURL, pocket) :
        g \in 1..Gen(dbPath, pocket),
        a \in {b \in 1..Len(caches) : caches[b].Database = dbPath} }

\* C6: what a lookup observes of a scope is one complete committed snapshot
\* of it, the one before or the one after a replace running at the same
\* time: for every database asked and every pocket, the rows returned for the
\* pocket are exactly the rows of the looked-up name in one snapshot committed
\* to that scope, never rows of two snapshots and never part of one.
C6_SnapshotReads ==
    \A j \in 1..Len(req.got), p \in PocketSet :
       \E snap \in SnapshotsOf(req.got[j].db, p) :
          InPocket(req.got[j].rows, p) = ByName(snap, req.pkg)

\* C6 happens: a lookup read foo 1.0 from a scope, and while the lookup is
\* still running the scope has been replaced by the next index
C6_Witness ==
    /\ req.pc = "loop"
    /\ Len(req.got) = 1
    /\ req.got[1].rows # <<>>
    /\ req.got[1].rows[1].version = <<1, 0>>
    /\ Gen(req.got[1].db, "stable") = 1

\* C7: the handler keeps no cache: every time it asks a database, it asks
\* the database of the archive whose turn it is and gets the rows that the
\* snapshots committed at that moment hold for the name, so a row of a
\* replaced snapshot that the new one does not contain is never returned
\* once the replace has committed.
C7_ReadsCommittedStore ==
    [][Len(req'.got) = Len(req.got) + 1 =>
          LET e == req'.got[Len(req'.got)]
          IN /\ e.db = caches[req.i].Database
             /\ \A p \in PocketSet :
                   InPocket(e.rows, p) = ByName(store[e.db][p], req.pkg)]_vars

\* C7 happens: the disk held foo 1.0 at startup, a refresh replaced it, and
\* a lookup has been answered with foo 1.1 and without foo 1.0
C7_Witness ==
    /\ disk0 = DiskSeeded
    /\ Answered
    /\ req.got[1].rows # <<>>
    /\ \A k \in 1..Len(req.got[1].rows) : req.got[1].rows[k].version = <<1, 1>>

\* C8 as claimed: each database has at most one writer at every moment: at
\* most one refresh pass is in flight for it.
C8_SingleWriterPerStore ==
    \A d \in DBPaths :
       Cardinality({i \in DOMAIN loops :
                       /\ loops[i].pc = "refresh"
                       /\ caches[loops[i].archive].Database = d}) <= 1

\* C9 as claimed: the archives of an accepted configuration own pairwise
\* distinct databases.
C9_DistinctStores ==
    \A a, b \in 1..Len(caches) :
       a # b => caches[a].Database # caches[b].Database

\* C10: every pass of a goroutine after its first begins in the step that
\* receives one tick from its ticker, a tick that has fired and has not been
\* received yet, and is run with force=false; passes begin one at a time.
C10_LaterPassesTicked ==
    [][\A i \in DOMAIN loops :
          (i \in DOMAIN loops' /\ loops'[i].passes # loops[i].passes
              /\ loops[i].passes >= 1) =>
             /\ loops'[i].passes = loops[i].passes + 1
             /\ loops[i].pc = "wait"
             /\ loops[i].ticks >= 1
             /\ loops[i].tickPending
             /\ ~loops'[i].tickPending
             /\ loops'[i].pc = "refresh"
             /\ ~loops'[i].force]_vars

\* C10 happens: a goroutine is in its second pass
C10_Witness ==
    \E i \in DOMAIN loops :
       loops[i].passes = 2 /\ loops[i].pc = "refresh" /\ loops[i].ticks = 1

\* goroutine i has begun more than n passes, or the process has exited
PassesBeyond(i, n) ==
    \/ ~Running
    \/ i \in DOMAIN loops /\ loops[i].passes > n

\* a pass of goroutine i has failed and is over
FailedPassOver(i) ==
    i \in DOMAIN loops /\ loops[i].err /\ loops[i].pc = "wait"

\* C11: a failed pass neither ends nor suspends the goroutine: when the pass
\* is over the goroutine waits for its ticker like after any pass, and its
\* next pass can begin exactly when a tick is pending, at once when one is;
\* the pass that follows a failed one begins only by receiving a tick, and
\* begins at the first pocket, so the failed pocket is tried again; and, the
\* goroutines being scheduled, every goroutine begins its first pass and
\* every tick pending for a goroutine, a failed pass or not, is followed by
\* the beginning of a further pass, for as long as the process runs.
C11_FailedPassRetriedOnTick ==
    /\ [](\A i \in DOMAIN loops :
            /\ loops[i].pc \in {"spawned", "first", "refresh", "wait"}
            /\ FailedPassOver(i) =>
                  /\ Running
                  /\ (ENABLED NextPass(i)) <=> loops[i].tickPending)
    /\ [][\A i \in DOMAIN loops :
            (i \in DOMAIN loops' /\ loops[i].err
                /\ loops'[i].passes # loops[i].passes) =>
               /\ FailedPassOver(i)
               /\ loops[i].tickPending
               /\ ~loops'[i].tickPending
               /\ loops'[i].passes = loops[i].passes + 1
               /\ loops'[i].pc = "refresh"
               /\ loops'[i].pocketIdx = 1
               /\ ~loops'[i].err]_vars
    /\ \A i \in LoopIds :
          (i \in DOMAIN loops) ~> PassesBeyond(i, 0)
    /\ \A i \in LoopIds, n \in 1..(MaxTicks + 1) :
          (i \in DOMAIN loops /\ loops[i].passes = n /\ loops[i].tickPending)
             ~> PassesBeyond(i, n)

\* C11 happens: the first pass of a goroutine has failed and is over, and
\* its ticker has fired: the retry is due
C11_Witness ==
    \E i \in DOMAIN loops :
       FailedPassOver(i) /\ loops[i].passes = 1 /\ loops[i].tickPending

\* the number of rows the databases returned to the request, all together
RECURSIVE SumLen(_)
SumLen(got) == IF got = <<>> THEN 0 ELSE Len(Head(got).rows) + SumLen(Tail(got))

\* how many rows of a sequence are the release id
CountOf(rows, id) == Cardinality({k \in 1..Len(rows) : Identity(rows[k]) = id})

RECURSIVE SumCountOf(_, _)
SumCountOf(got, id) ==
    IF got = <<>> THEN 0
    ELSE CountOf(Head(got).rows, id) + SumCountOf(Tail(got), id)

\* C12: nothing is dropped across archives: the records gathered are as many
\* as the databases returned all together, an answer holds as many elements,
\* and a release is in the answer as many times as the databases returned
\* it, so twice when two archives report it.
C12_NoCrossArchiveDedup ==
    /\ Len(req.allInfo) = SumLen(req.got)
    /\ Answered =>
          /\ Len(req.body.elems) = SumLen(req.got)
          /\ \A j \in 1..Len(req.got) : \A k \in 1..Len(req.got[j].rows) :
                LET id == Identity(req.got[j].rows[k])
                IN CountOf(req.body.elems, id) = SumCountOf(req.got, id)

\* C12 happens: two archives with databases of their own report the same
\* release, and the answer holds it twice
C12_Witness ==
    /\ Answered
    /\ Len(req.got) = 2
    /\ req.got[1].db # req.got[2].db
    /\ Len(req.got[1].rows) = 1
    /\ Len(req.got[2].rows) = 1
    /\ Identity(req.got[1].rows[1]) = Identity(req.got[2].rows[1])
    /\ Len(req.body.elems) = 2
    /\ Identity(req.body.elems[1]) = Identity(req.body.elems[2])

\* the database of the archive goroutine i works on
DatabaseOf(i) == caches[loops[i].archive].Database

\* no other goroutine writes the database of goroutine i
SoleWriter(i) == \A j \in DOMAIN loops : j # i => DatabaseOf(j) # DatabaseOf(i)

\* C13: the step in which a pocket of a pass fails changes no database: it
\* only records the error of the pass, which goes on with the next pocket
\* while main and the request are as they were; a step of a pass never
\* changes the scope of another pocket or of another database, so the rest
\* of the pass leaves the failed pocket alone; a lookup that asks the
\* database of an archive whose pass has failed gets the rows its scopes
\* hold; and so, when the first pocket of the first pass of an archive has
\* failed, its scope holds what was on disk at startup (as long as no other
\* archive writes the same database).
C13_FailedPocketKeepsSnapshot ==
    /\ [][\A i \in DOMAIN loops :
            (i \in DOMAIN loops' /\ ~loops[i].err /\ loops'[i].err) =>
               /\ store' = store
               /\ loops[i].pc = "refresh"
               /\ loops'[i] = [loops[i] EXCEPT !.err = TRUE,
                                               !.pocketIdx = @ + 1]
               /\ UNCHANGED <<mainPc, exitReason, caches, req>>]_vars
    /\ [][\A i \in DOMAIN loops :
            (i \in DOMAIN loops' /\ loops[i].pc = "refresh"
                /\ loops'[i].pocketIdx = loops[i].pocketIdx + 1) =>
               \A d \in DBPaths, p \in PocketSet :
                  store'[d][p] # store[d][p] =>
                     /\ d = DatabaseOf(i)
                     /\ p = caches[loops[i].archive].Pockets[loops[i].pocketIdx]]_vars
    /\ [][(Len(req'.got) = Len(req.got) + 1
            /\ \E i \in DOMAIN loops :
                  FailedPassOver(i) /\ DatabaseOf(i) = caches[req.i].Database) =>
               \A p \in PocketSet :
                  InPocket(req'.got[Len(req'.got)].rows, p)
                     = ByName(store[caches[req.i].Database][p], req.pkg)]_vars
    /\ [](\A i \in DOMAIN loops :
            (loops[i].passes = 1 /\ loops[i].err /\ loops[i].pocketIdx = 2
                /\ SoleWriter(i)) =>
               LET p == caches[loops[i].archive].Pockets[1]
               IN store[DatabaseOf(i)][p] = disk0[DatabaseOf(i)][p])

\* C13 happens: the only pocket of an archive failed in its first pass, the
\* pass is over, and the lookup being answered holds the record the pocket
\* had on disk
C13_Witness ==
    /\ Answered
    /\ \E i \in DOMAIN loops :
          /\ FailedPassOver(i)
          /\ loops[i].passes = 1
          /\ Len(caches[loops[i].archive].Pockets) = 1
          /\ disk0[DatabaseOf(i)]["stable"] # <<>>
          /\ \E j \in 1..Len(req.got) :
                /\ req.got[j].db = DatabaseOf(i)
                /\ req.got[j].rows =
                      ByName(disk0[DatabaseOf(i)]["stable"], <<"foo">>)

\* the rows of a sequence, as a set
RowSet(rows) == {rows[k] : k \in 1..Len(rows)}

\* a step of goroutine i commits a new snapshot of the scope (d, p)
Replaces(i, d, p) ==
    /\ i \in DOMAIN loops'
    /\ loops[i].pc = "refresh"
    /\ loops'[i].pocketIdx = loops[i].pocketIdx + 1
    /\ d = DatabaseOf(i)
    /\ p = caches[loops[i].archive].Pockets[loops[i].pocketIdx]
    /\ store'[d][p] # store[d][p]

\* C14: a replace substitutes the whole snapshot of its scope: after the
\* step the scope holds exactly the rows of the new index, so a row stored
\* before is still there only if the new index has it; a scope never holds
\* two versions of a package; and once a scope has been replaced, a lookup
\* of foo gets from it one row and no more, at the version of the snapshot
\* the scope holds at that moment, never the version it held before.
C14_ReplaceIsWholesale ==
    /\ [][\A i \in DOMAIN loops, d \in DBPaths, p \in PocketSet :
            Replaces(i, d, p) =>
               LET new == Rows(IndexAt(Gen(d, p) + 1),
                               caches[loops[i].archive].BaseURL, p)
               IN /\ store'[d][p] = new
                  /\ \A old \in RowSet(store[d][p]) :
                        old \in RowSet(store'[d][p]) <=> old \in RowSet(new)
                  /\ \A r \in RowSet(store'[d][p]) :
                        r.package = "foo" => r.version = <<1, Gen(d, p) + 1>>]_vars
    /\ [](\A d \in DBPaths, p \in PocketSet :
            \A r1, r2 \in RowSet(store[d][p]) :
               r1.package = r2.package => r1.version = r2.version)
    /\ [][(Len(req'.got) = Len(req.got) + 1 /\ req.pkg = <<"foo">>) =>
            LET e == req'.got[Len(req'.got)]
            IN \A p \in PocketSet :
                  Gen(e.db, p) >= 1 =>
                     /\ Len(InPocket(e.rows, p)) = 1
                     /\ InPocket(e.rows, p)[1].version = <<1, Gen(e.db, p)>>]_vars

\* C14 happens: the only archive had foo 1.0 on disk, its scope has been
\* replaced by the index with foo 1.1, and the lookup of foo is answered with
\* exactly one record, at 1.1
C14_Witness ==
    /\ Answered
    /\ Len(caches) = 1
    /\ req.pkg = <<"foo">>
    /\ ByName(disk0[caches[1].Database]["stable"], <<"foo">>) # <<>>
    /\ Gen(caches[1].Database, "stable") = 1
    /\ Len(req.body.elems) = 1
    /\ req.body.elems[1].version = <<1, 1>>

\* the JSON text "[]"
EmptyArray == [kind |-> "array", elems |-> <<>>]

\* C15: a request that has ended has status 200, 404 or 500. When every
\* database was asked and returned no rows, the status is 200 and the body
\* is the empty JSON array, with its content type, and not null nor an error.
\* Status 500 means that a database returned an error or, every database
\* having answered, that the rows could not be marshalled; it never comes
\* with a body. Status 200 always comes with a JSON array.
C15_EmptyIsNotError ==
    /\ req.pc = "done" => req.status \in {200, 404, 500}
    /\ (req.pc = "done" /\ req.status # 404 /\ req.failedAt = 0
           /\ GotRows = <<>>) =>
          /\ Len(req.got) = Len(caches)
          /\ req.status = 200
          /\ req.contentType
          /\ req.body = EmptyArray
    /\ req.status = 500 =>
          /\ req.body = NoBody
          /\ ~req.contentType
          /\ \/ req.failedAt # 0
             \/ Len(req.got) = Len(caches) /\ GotRows # <<>>
    /\ req.status = 200 =>
          /\ req.failedAt = 0
          /\ req.body.kind = "array"
          /\ req.body = Marshal(req.allInfo)

\* C15 happens: both databases were asked for foo, neither has it, and the
\* answer is 200 with the empty array
C15_Witness ==
    /\ Answered
    /\ req.pkg = <<"foo">>
    /\ Len(req.got) = 2
    /\ req.got[1].rows = <<>>
    /\ req.got[2].rows = <<>>
    /\ req.body = EmptyArray

\* C16 as claimed: a request whose path holds a separator after its first
\* character, be it the second character, in the middle or the last, is
\* answered 404 at once, and no database is asked for it.
C16_SeparatorRejected ==
    (req.pc # "idle" /\ ContainsSlash(Tail(req.path))) =>
       /\ req.pc = "done"
       /\ req.status = 404
       /\ req.got = <<>>
       /\ req.failedAt = 0

\* the configuration is in error: no file, a file yaml.Unmarshal returns an
\* error for, no archive, or an archive without base_url, with a URL that
\* does not parse or with a database that cannot be opened
ConfigInError(raw) ==
    \/ ~raw.found
    \/ raw.yaml # "ok"
    \/ raw.archives = <<>>
    \/ \E k \in 1..Len(raw.archives) : ArchiveConfErr(raw.archives[k])

\* C17 as claimed: with a configuration in error the process gets no
\* further than reading it: no goroutine of refreshCaches is started and the
\* HTTP server is not started.
C17_ConfigErrorFatal ==
    ConfigInError(rawConfig) =>
       /\ mainPc \in {"start", "exited"}
       /\ caches = <<>>
       /\ loops = <<>>
       /\ req = IdleReq

\* a step of goroutine i ends its pass
EndsPass(i) ==
    /\ i \in DOMAIN loops'
    /\ loops[i].pc = "refresh"
    /\ loops'[i].pc # "refresh"

\* C18: a pass has nothing logged while it runs and exactly one result
\* logged once it is over, whether it failed or not; the result is logged in
\* the step that ends the pass and carries the time elapsed since the pass
\* began, the records the pass stored in all, and its error if it had one;
\* what is logged of a pass changes in no other step but the one that
\* begins the next pass; and the record count of a pass grows exactly by the
\* rows each replace of the pass commits.
C18_OneResultPerPass ==
    /\ [](\A i \in DOMAIN loops :
            /\ loops[i].pc # "wait" => loops[i].results = <<>>
            /\ loops[i].pc = "wait" =>
                  /\ Len(loops[i].results) = 1
                  /\ loops[i].results[1].err = loops[i].err
                  /\ loops[i].results[1].pkgStats = loops[i].pkgStats
                  /\ loops[i].results[1].duration \in 0..(loops[i].ticks - loops[i].now))
    /\ [][\A i \in DOMAIN loops :
            /\ EndsPass(i) =>
                  loops'[i].results =
                     <<[duration |-> loops[i].ticks - loops[i].now,
                        pkgStats |-> loops[i].pkgStats,
                        err |-> loops[i].err]>>
            /\ (i \in DOMAIN loops' /\ loops'[i].results # loops[i].results) =>
                  \/ EndsPass(i)
                  \/ loops'[i].passes = loops[i].passes + 1 /\ loops'[i].results = <<>>
            /\ (i \in DOMAIN loops' /\ loops'[i].passes = loops[i].passes) =>
                  loops'[i].pkgStats - loops[i].pkgStats =
                     IF store'[DatabaseOf(i)] # store[DatabaseOf(i)]
                        /\ loops'[i].pocketIdx # loops[i].pocketIdx
                     THEN Len(store'[DatabaseOf(i)][
                              caches[loops[i].archive].Pockets[loops[i].pocketIdx]])
                     ELSE 0]_vars

\* C18 happens: the first pass of one archive stored both its pockets and
\* was logged without error, the first pass of the other failed and was
\* logged with its error
C18_Witness ==
    /\ Len(loops) = 2
    /\ loops[1].pc = "wait" /\ loops[1].passes = 1
    /\ loops[1].results = <<[duration |-> 0, pkgStats |-> 4, err |-> FALSE]>>
    /\ loops[2].pc = "wait" /\ loops[2].passes = 1
    /\ Len(loops[2].results) = 1
    /\ loops[2].results[1].err
    /\ loops[2].results[1].pkgStats = 0

\* C19: the ticker exists before the first pass, which begins without
\* waiting for it and takes no tick; the channel holds one tick at most, so
\* a tick that fires while one is pending changes nothing but the count of
\* ticks fired; every pass after the first takes the pending tick with it,
\* so that when it has begun no further pass can begin before the ticker
\* fires again, however many ticks fired during the pass before; and a
\* goroutine has begun at most one pass more than its ticker has fired.
C19_OnePendingTick ==
    /\ [](\A i \in DOMAIN loops :
            /\ loops[i].passes <= 1 + loops[i].ticks
            /\ loops[i].pc = "spawned" =>
                  loops[i].passes = 0 /\ loops[i].ticks = 0 /\ ~loops[i].tickPending
            /\ loops[i].pc = "first" => loops[i].passes = 0 /\ ENABLED FirstPass(i)
            /\ loops[i].tickPending => loops[i].ticks >= 1
            /\ (loops[i].pc = "wait" /\ loops[i].tickPending) => ENABLED NextPass(i)
            /\ (loops[i].pc = "wait" /\ ~loops[i].tickPending) => ~ENABLED NextPass(i))
    /\ [][\A i \in DOMAIN loops :
            /\ (i \in DOMAIN loops' /\ loops'[i].ticks # loops[i].ticks) =>
                  /\ loops'[i].ticks = loops[i].ticks + 1
                  /\ loops'[i].tickPending
                  /\ loops[i].tickPending =>
                        loops'[i] = [loops[i] EXCEPT !.ticks = @ + 1]
            /\ (i \in DOMAIN loops' /\ loops'[i].passes # loops[i].passes) =>
                  /\ loops'[i].passes = loops[i].passes + 1
                  /\ loops'[i].ticks = loops[i].ticks
                  /\ loops[i].passes = 0 =>
                        loops'[i].tickPending = loops[i].tickPending
                  /\ loops[i].passes >= 1 =>
                        loops[i].tickPending /\ ~loops'[i].tickPending]_vars

\* C19 happens: the first pass began when the ticker was created and is
\* still running, the ticker has fired twice since, and one tick is pending
C19_Witness ==
    \E i \in DOMAIN loops :
       /\ loops[i].pc = "refresh"
       /\ loops[i].passes = 1
       /\ loops[i].now = 0
       /\ loops[i].ticks = 2
       /\ loops[i].tickPending

====
